---- MODULE Spec2Model ----
(***************************************************************************)
(* Model of the gemini-mcp server (src/server.py): the JSON-RPC router     *)
(* mcp_endpoint, the generation path handle_gemini_chat, the Hive Mind     *)
(* store client (get_snowflake_connection, query_hive_mind,                *)
(* write_to_hive_mind), the conversation recorder log_conversation and the *)
(* lazy backend initialisation init_vertexai / call_gemini.                *)
(*                                                                         *)
(* Text is kept run-length encoded: a text is a sequence of runs           *)
(* [ch |-> c, n |-> k], k copies of the character c.  Three characters are *)
(* told apart: the single quote, the comma and the newline; every other    *)
(* ch stands for ordinary text.  A fixed label of the program ("GEMINI",   *)
(* "user", a sentinel message) is one run of count 1 whose ch is the       *)
(* label; it contains neither quote nor comma.  The encoding lets the      *)
(* model use the real caps (4000) with texts a few runs long.              *)
(***************************************************************************)
EXTENDS Integers, Sequences, FiniteSets, TLC

\* ------------------------------------------------------------------------
\* Text
\* ------------------------------------------------------------------------
Quote == "'"
Comma == ","
Newline == "\n"

Run(c, k) == [ch |-> c, n |-> k]
W(word) == <<Run(word, 1)>>
EmptyText == << >>

RECURSIVE TextLen(_)
TextLen(s) == IF s = << >> THEN 0 ELSE Head(s).n + TextLen(Tail(s))

\* canonical form: no empty run, no two adjacent runs of the same character
RECURSIVE Normalize(_)
Normalize(s) ==
  IF s = << >> THEN << >>
  ELSE IF Head(s).n = 0 THEN Normalize(Tail(s))
  ELSE LET r == Normalize(Tail(s))
       IN IF r # << >> /\ Head(r).ch = Head(s).ch
          THEN <<Run(Head(s).ch, Head(s).n + Head(r).n)>> \o Tail(r)
          ELSE <<Head(s)>> \o r

Concat(a, b) == Normalize(a \o b)

RECURSIVE Join(_)
Join(parts) == IF parts = << >> THEN << >> ELSE Concat(Head(parts), Join(Tail(parts)))

\* s.replace("'", "''")
ReplaceQuotes(s) ==
  [i \in 1..Len(s) |-> IF s[i].ch = Quote THEN Run(Quote, 2 * s[i].n) ELSE s[i]]

\* s[:cap]
RECURSIVE Slice(_, _)
Slice(s, cap) ==
  IF s = << >> \/ cap <= 0 THEN << >>
  ELSE IF Head(s).n >= cap THEN <<Run(Head(s).ch, cap)>>
  ELSE <<Head(s)>> \o Slice(Tail(s), cap - Head(s).n)

\* ------------------------------------------------------------------------
\* The store's reading of an INSERT statement.  A statement is the text
\* 'v1','v2',...,'vk' of its VALUES list (the keywords, PARSE_JSON( ) and
\* CURRENT_TIMESTAMP() are ordinary text outside the literals and cannot
\* change how the literals are read).  Inside a literal '' is one quote and
\* a single ' ends the literal.
\* ------------------------------------------------------------------------
Literal(body) == <<Run(Quote, 1)>> \o body \o <<Run(Quote, 1)>>

RECURSIVE ValuesList(_)
ValuesList(bodies) ==
  IF bodies = << >> THEN << >>
  ELSE IF Len(bodies) = 1 THEN Literal(Head(bodies))
  ELSE Literal(Head(bodies)) \o <<Run(Comma, 1)>> \o ValuesList(Tail(bodies))

Statement(bodies) == Normalize(ValuesList(bodies))

\* mode "expect": a literal must start; "in": inside a literal;
\* "after": a literal has just ended.
RECURSIVE SqlScan(_, _, _, _)
SqlScan(s, mode, cur, vals) ==
  IF s = << >>
  THEN [ok |-> (mode = "after"), vals |-> vals]
  ELSE LET r == Head(s) rest == Tail(s) IN
    IF mode = "expect" THEN
      IF r.ch # Quote THEN [ok |-> FALSE, vals |-> vals]
      ELSE LET k == (r.n - 1) \div 2
               lit == IF k > 0 THEN <<Run(Quote, k)>> ELSE << >>
           IN IF (r.n - 1) % 2 = 1
              THEN SqlScan(rest, "after", << >>, Append(vals, lit))
              ELSE SqlScan(rest, "in", lit, vals)
    ELSE IF mode = "in" THEN
      IF r.ch # Quote THEN SqlScan(rest, "in", Append(cur, r), vals)
      ELSE LET k == r.n \div 2
               lit == IF k > 0 THEN Append(cur, Run(Quote, k)) ELSE cur
           IN IF r.n % 2 = 1
              THEN SqlScan(rest, "after", << >>, Append(vals, Normalize(lit)))
              ELSE SqlScan(rest, "in", lit, vals)
    ELSE
      IF r.ch = Comma /\ r.n = 1 THEN SqlScan(rest, "expect", << >>, vals)
      ELSE [ok |-> FALSE, vals |-> vals]

SqlParse(stmt) == SqlScan(stmt, "expect", << >>, << >>)

\* cursor.execute(sql) of an INSERT with `columns` columns: the rows it adds
\* (none when the statement is rejected)
Execute(bodies, columns) ==
  LET p == SqlParse(Statement(bodies))
  IN [ok |-> p.ok /\ Len(p.vals) = columns, vals |-> p.vals]

\* ------------------------------------------------------------------------
\* JSON values.  A dict is a function from its keys to JSON values; a key
\* that is absent is not in its DOMAIN.
\* ------------------------------------------------------------------------
JAbsent == [t |-> "absent"]
JNull == [t |-> "null"]
JNum(k) == [t |-> "num", v |-> k]
JStr(s) == [t |-> "str", v |-> s]
JArr(a) == [t |-> "arr", v |-> a]
JObj(f) == [t |-> "obj", v |-> f]
EmptyDict == [k \in {} |-> JNull]

\* a dict literal: the keys given JAbsent are left out
Dict(f) == [k \in {k2 \in DOMAIN f : f[k2] # JAbsent} |-> f[k]]

IsDict(j) == j.t = "obj"

\* d.get(key, default), d a dict
Get(d, key, default) == IF key \in DOMAIN d.v THEN d.v[key] ELSE default

\* Python truthiness of a JSON value
Truthy(j) ==
  CASE j.t = "null" -> FALSE
    [] j.t = "str" -> j.v # EmptyText
    [] j.t = "num" -> j.v # 0
    [] j.t = "arr" -> j.v # << >>
    [] j.t = "obj" -> DOMAIN j.v # {}
    [] OTHER -> FALSE

\* f"{value}"
Format(j) ==
  CASE j.t = "str" -> j.v
    [] j.t = "null" -> W("None")
    [] j.t = "num" -> W(ToString(j.v))
    [] OTHER -> W("<repr>")

\* ------------------------------------------------------------------------
\* Program constants and fixed labels
\* ------------------------------------------------------------------------
ContentCap == 4000
DefaultId == 1
DefaultLimit == 5
ContextLimit == 3
MethodNotFound == -32601

GEMINI_MODEL == W("gemini-2.0-flash-exp")
SOVEREIGN_MIND_SYSTEM_PROMPT == W("SOVEREIGN_MIND_SYSTEM_PROMPT")
InstanceLabel == W("GEMINI")

ToolsList == JStr(W("tools/list"))
ToolsCall == JStr(W("tools/call"))
GenerateTool == JStr(W("gemini_generate_content"))
ChatTool == JStr(W("gemini_chat"))
AnalyzeTool == JStr(W("gemini_analyze_document"))
ReadTool == JStr(W("sm_hive_mind_read"))
WriteTool == JStr(W("sm_hive_mind_write"))

Unavailable == W("Hive Mind unavailable")
NoEntries == W("No recent Hive Mind entries")
QueryFailed == W("Hive Mind query failed: <e>")
Written == W("Written to Hive Mind")
Failed == W("Failed")
GeminiError == W("Error: <e>")

\* ------------------------------------------------------------------------
\* Bounds
\* ------------------------------------------------------------------------
NumThreads == 2
MaxRequests == 2
MaxOtherWrites == 1

Threads == 1..NumThreads

\* ------------------------------------------------------------------------
\* State
\* ------------------------------------------------------------------------
VARIABLES
  _snowflake_conn,        \* the process-wide connection handle: "None" or "conn"
  _vertexai_initialized,  \* the process-wide flag
  storeUp,                \* the store accepts connections and statements
  hive,                   \* SOVEREIGN_MIND.RAW.HIVE_MIND, oldest first
  conversations,          \* SOVEREIGN_MIND.RAW.GEMINI_CONVERSATIONS, oldest first
  th,                     \* per request thread: position, locals, response
  backend,                \* calls made to Vertex AI: [inits, calls]
  env,                    \* [received, uuids, others, clients]: requests
                          \* received, uuids drawn, entries written by other
                          \* agents, the kind of requests the clients send
  probe                   \* [sample, wrote, logged]: the text handed to the two
                          \* INSERT helpers in SpecText, and which have run

vars == <<_snowflake_conn, _vertexai_initialized, storeUp, hive, conversations,
          th, backend, env, probe>>

NoResp == [status |-> 0, body |-> EmptyDict]
Crash == [status |-> 500, body |-> EmptyDict]
Respond(body) == [status |-> 200, body |-> body]

Idle ==
  [pc |-> "idle", data |-> JNull, req_id |-> JNull, arguments |-> JNull,
   message |-> JNull, conversation_id |-> EmptyText, system_prompt |-> EmptyText,
   response |-> EmptyText, logged |-> << >>, resp |-> NoResp]

\* ------------------------------------------------------------------------
\* Store client
\* ------------------------------------------------------------------------
\* get_snowflake_connection handing out a handle although connect() raised
get_snowflake_connection_unchecked(conn, up) == "conn"

\* the value of _snowflake_conn after the call, which is also what it returns
get_snowflake_connection(conn, up) ==
  IF conn = "None" THEN (IF up THEN "conn" ELSE "None") ELSE conn

Reverse(s) == [i \in 1..Len(s) |-> s[Len(s) + 1 - i]]
Min(a, b) == IF a <= b THEN a ELSE b

Timestamp(k) == W("ts-" \o ToString(k))

\* f"[{row[0]}] {row[1]} ({row[2]}): {row[3]}"
Render(row) ==
  Join(<<W("["), Timestamp(row.created_at), W("] "), row.source, W(" ("),
         row.category, W("): "), row.summary>>)

\* "\n".join(entries)
RECURSIVE JoinLines(_)
JoinLines(lines) ==
  IF lines = << >> THEN << >>
  ELSE IF Len(lines) = 1 THEN Head(lines)
  ELSE Join(<<Head(lines), <<Run(Newline, 1)>>, JoinLines(Tail(lines))>>)

\* SELECT ... ORDER BY CREATED_AT DESC LIMIT {limit}
SelectRecent(table, k) == SubSeq(Reverse(table), 1, Min(k, Len(table)))

\* query_hive_mind(limit), given the connection get_snowflake_connection()
\* returned; limit is a JSON value
query_hive_mind(limit, conn, up, table) ==
  IF conn = "None" THEN Unavailable
  ELSE IF ~up \/ limit.t # "num" THEN QueryFailed
  ELSE IF limit.v < 0 THEN QueryFailed
  ELSE LET rows == SelectRecent(table, limit.v)
       IN IF rows = << >> THEN NoEntries
          ELSE JoinLines([i \in 1..Len(rows) |-> Render(rows[i])])

\* write_to_hive_mind(source, category, summary, workstream=..., priority=...):
\* [success, table], the table after the call
write_to_hive_mind(source, category, summary, workstream, priority, conn, up, table) ==
  IF conn = "None" THEN [success |-> FALSE, table |-> table]
  ELSE IF ~up THEN [success |-> FALSE, table |-> table]
  ELSE IF Truthy(summary) /\ summary.t # "str" THEN [success |-> FALSE, table |-> table]
  ELSE LET safe_summary == IF Truthy(summary) THEN ReplaceQuotes(summary.v) ELSE EmptyText
           safe_details == ReplaceQuotes(W("{}"))
           ex == Execute(<<Format(source), Format(category), Format(workstream),
                           safe_summary, safe_details, Format(priority)>>, 6)
       IN IF ~ex.ok THEN [success |-> FALSE, table |-> table]
          ELSE [success |-> TRUE,
                table |-> Append(table,
                  [created_at |-> Len(table) + 1, source |-> ex.vals[1],
                   category |-> ex.vals[2], workstream |-> ex.vals[3],
                   summary |-> ex.vals[4], details |-> ex.vals[5],
                   priority |-> ex.vals[6]])]

\* log_conversation(conversation_id, role, content): the table after the call;
\* content is a JSON value
log_conversation(conversation_id, role, content, conn, up, table) ==
  IF conn = "None" THEN table
  ELSE IF ~up THEN table
  ELSE IF Truthy(content) /\ content.t # "str" THEN table
  ELSE LET safe_content == IF Truthy(content)
                           THEN Slice(ReplaceQuotes(content.v), ContentCap)
                           ELSE EmptyText
           ex == Execute(<<conversation_id, role, safe_content, GEMINI_MODEL>>, 4)
       IN IF ~ex.ok THEN table
          ELSE Append(table,
                 [conversation_id |-> ex.vals[1], role |-> ex.vals[2],
                  content |-> ex.vals[3], model |-> ex.vals[4]])

\* ------------------------------------------------------------------------
\* Response envelopes
\* ------------------------------------------------------------------------
ResultEnvelope(req_id, result) ==
  [jsonrpc |-> JStr(W("2.0")), id |-> req_id, result |-> result]

ErrorEnvelope(req_id, code, message) ==
  [jsonrpc |-> JStr(W("2.0")), id |-> req_id,
   error |-> JObj([code |-> JNum(code), message |-> JStr(message)])]

TextContent(text) ==
  JObj([content |-> JArr(<<JObj([type |-> JStr(W("text")), text |-> JStr(text)])>>)])

native_tools ==
  JArr(<<GenerateTool, ChatTool, AnalyzeTool, ReadTool, WriteTool>>)

\* the response id taken to be the default whatever the request holds
RequestIdDefaultOnly(data) == JNum(DefaultId)

\* data.get("id", 1)
RequestId(data) == Get(data, "id", JNum(DefaultId))

\* json.dumps({"response": response})
DumpResponse(response) == Join(<<W("{\"response\": \""), response, W("\"}")>>)

\* ------------------------------------------------------------------------
\* Requests the clients send: JSON objects (a body that is not a JSON object
\* is the transport's business)
\* ------------------------------------------------------------------------
TextA == <<Run("a", 1)>>
TextQuote == <<Run(Quote, 1)>>
TextAQuote == <<Run("a", 1), Run(Quote, 1)>>

ChatArguments ==
  {JAbsent, JNull,
   JObj([message |-> JStr(TextQuote)]),
   JObj([message |-> JStr(TextA), system |-> JStr(W("be brief"))])}

GenerateArguments == {JObj([prompt |-> JStr(TextA)])}

AnalyzeArguments ==
  {JNull, JObj([document_text |-> JStr(TextA), analysis_prompt |-> JStr(W("Summarise"))])}

ReadArguments == {JAbsent, JNull, JObj([limit |-> JNum(1)])}

WriteArguments ==
  {JNull,
   JObj([category |-> JStr(W("INSIGHT")), summary |-> JStr(W("test note"))]),
   JObj([category |-> JStr(W("DECISION")), summary |-> JStr(TextAQuote)]),
   JObj([summary |-> JStr(TextA)]),
   JObj([category |-> JStr(EmptyText), summary |-> JStr(W("test note"))]),
   JObj([category |-> JStr(TextAQuote), summary |-> JStr(W("test note"))])}

ToolCalls ==
  {<<JAbsent, JAbsent>>, <<JStr(W("nope")), JAbsent>>, <<JStr(W("nope")), JNull>>}
  \cup ({ChatTool} \X ChatArguments)
  \cup ({GenerateTool} \X GenerateArguments)
  \cup ({AnalyzeTool} \X AnalyzeArguments)
  \cup ({ReadTool} \X ReadArguments)
  \cup ({WriteTool} \X WriteArguments)

Params ==
  {JAbsent, JNull} \cup
  {JObj(Dict([name |-> c[1], arguments |-> c[2]])) : c \in ToolCalls}

Calls ==
  {<<ToolsList, JAbsent>>, <<JStr(W("ping")), JNull>>, <<JAbsent, JAbsent>>}
  \cup ({ToolsCall} \X Params)

\* one call for each `return` of mcp_endpoint and handle_gemini_chat, sent
\* with an explicit id as well
IdCalls ==
  {<<ToolsList, JAbsent>>, <<JStr(W("ping")), JNull>>,
   <<ToolsCall, JObj([name |-> JStr(W("nope"))])>>,
   <<ToolsCall, JObj([name |-> GenerateTool, arguments |-> JObj([prompt |-> JStr(TextA)])])>>,
   <<ToolsCall, JObj([name |-> ReadTool])>>,
   <<ToolsCall, JObj([name |-> WriteTool, arguments |->
       JObj([category |-> JStr(W("INSIGHT")), summary |-> JStr(W("test note"))])])>>}

GenerateCalls ==
  {<<ToolsCall, JObj([name |-> GenerateTool, arguments |-> a])>> : a \in GenerateArguments}

Body(c, id) == JObj(Dict([method |-> c[1], params |-> c[2], id |-> id]))

Bodies ==
  {Body(c, JAbsent) : c \in Calls \ GenerateCalls}
  \cup {Body(c, JNum(7)) : c \in IdCalls}

\* generation requests only; one has a message whose escaped form is cut
\* inside a doubled quote
TextCut == <<Run("a", ContentCap - 1), Run(Quote, 1)>>

GenerationBodies ==
  {Body(<<ToolsCall, JObj([name |-> ChatTool, arguments |-> JObj([message |-> JStr(m)])])>>, JAbsent)
     : m \in {TextQuote, TextCut}}
  \cup {Body(c, JNum(7)) : c \in GenerateCalls}

ClientBodies(kind) ==
  CASE kind = "any" -> Bodies
    [] kind = "generation" -> GenerationBodies
    [] OTHER -> {}

\* ------------------------------------------------------------------------
\* Initial state: a fresh process, an empty store
\* ------------------------------------------------------------------------
Init ==
  /\ _snowflake_conn = "None"
  /\ _vertexai_initialized = FALSE
  /\ storeUp = TRUE
  /\ hive = << >>
  /\ conversations = << >>
  /\ th = [t \in Threads |-> Idle]
  /\ backend = [inits |-> 0, calls |-> 0]
  /\ env = [received |-> 0, uuids |-> 0, others |-> 0, clients |-> "any"]
  /\ probe = [sample |-> EmptyText, wrote |-> FALSE, logged |-> FALSE]

\* ------------------------------------------------------------------------
\* Environment
\* ------------------------------------------------------------------------
\* a POST /mcp arrives and is given to a free thread
Receive(t, body) ==
  /\ th[t].pc \in {"idle", "done"}
  /\ \A u \in 1..(t - 1) : th[u].pc \notin {"idle", "done"}
  /\ env.received < MaxRequests
  /\ body \in ClientBodies(env.clients)
  /\ th' = [th EXCEPT ![t] = [Idle EXCEPT !.pc = "mcp_endpoint", !.data = body]]
  /\ env' = [env EXCEPT !.received = @ + 1]
  /\ UNCHANGED <<_snowflake_conn, _vertexai_initialized, storeUp, hive,
                 conversations, backend, probe>>

StoreFails ==
  /\ storeUp
  /\ storeUp' = FALSE
  /\ UNCHANGED <<_snowflake_conn, _vertexai_initialized, hive, conversations,
                 th, backend, env, probe>>

StoreRecovers ==
  /\ ~storeUp
  /\ storeUp' = TRUE
  /\ UNCHANGED <<_snowflake_conn, _vertexai_initialized, hive, conversations,
                 th, backend, env, probe>>

\* another agent instance appends to the shared log
OtherAgentWrites ==
  /\ storeUp
  /\ env.others < MaxOtherWrites
  /\ hive' = Append(hive,
       [created_at |-> Len(hive) + 1, source |-> W("JC"), category |-> W("STATUS"),
        workstream |-> W("GENERAL"), summary |-> W("other agent note"),
        details |-> W("{}"), priority |-> W("MEDIUM")])
  /\ env' = [env EXCEPT !.others = @ + 1]
  /\ UNCHANGED <<_snowflake_conn, _vertexai_initialized, storeUp, conversations,
                 th, backend, probe>>

\* ------------------------------------------------------------------------
\* GET /: the status descriptor looks up the connection
\* ------------------------------------------------------------------------
index ==
  /\ _snowflake_conn' = get_snowflake_connection(_snowflake_conn, storeUp)
  /\ UNCHANGED <<_vertexai_initialized, storeUp, hive, conversations, th,
                 backend, env, probe>>

\* ------------------------------------------------------------------------
\* mcp_endpoint
\* ------------------------------------------------------------------------
Finish(t, response) ==
  [th[t] EXCEPT !.pc = "done", !.resp = response, !.arguments = JNull,
                !.message = JNull, !.system_prompt = EmptyText,
                !.response = EmptyText]

\* the generation path as the fall-through branch of the dispatch
IsGenerationToolByDefault(tool_name) == tool_name \notin {AnalyzeTool, ReadTool, WriteTool}

IsGenerationTool(tool_name) == tool_name \in {GenerateTool, ChatTool}

mcp_endpoint(t) ==
  /\ th[t].pc = "mcp_endpoint"
  /\ LET data == th[t].data
         method == Get(data, "method", JStr(EmptyText))
         params == Get(data, "params", JObj(EmptyDict))
         req_id == RequestId(data)
         conn == get_snowflake_connection(_snowflake_conn, storeUp)
         quiet == UNCHANGED <<_snowflake_conn, hive>>
     IN
     IF method = ToolsList THEN
       /\ th' = [th EXCEPT ![t] =
            Finish(t, Respond(ResultEnvelope(req_id, JObj([tools |-> native_tools]))))]
       /\ quiet
     ELSE IF method = ToolsCall THEN
       IF ~IsDict(params) THEN
         \* params.get raises AttributeError
         th' = [th EXCEPT ![t] = Finish(t, Crash)] /\ quiet
       ELSE
         LET tool_name == Get(params, "name", JStr(EmptyText))
             arguments == Get(params, "arguments", JObj(EmptyDict))
         IN
         IF IsGenerationTool(tool_name) THEN
           /\ th' = [th EXCEPT ![t] = [@ EXCEPT !.pc = "handle_gemini_chat",
                                                !.req_id = req_id,
                                                !.arguments = arguments]]
           /\ quiet
         ELSE IF tool_name = AnalyzeTool THEN
           IF ~IsDict(arguments) THEN
             th' = [th EXCEPT ![t] = Finish(t, Crash)] /\ quiet
           ELSE
             LET doc == Get(arguments, "document_text", JStr(EmptyText))
                 prompt == Get(arguments, "analysis_prompt", JStr(W("Analyze this document")))
                 message == Join(<<Format(prompt), W("\n\nDocument:\n"), Format(doc)>>)
             IN /\ th' = [th EXCEPT ![t] = [@ EXCEPT !.pc = "handle_gemini_chat",
                                                     !.req_id = req_id,
                                                     !.arguments = JObj([message |-> JStr(message)])]]
                /\ quiet
         ELSE IF tool_name = ReadTool THEN
           IF ~IsDict(arguments) THEN
             th' = [th EXCEPT ![t] = Finish(t, Crash)] /\ quiet
           ELSE
             LET entries == query_hive_mind(Get(arguments, "limit", JNum(DefaultLimit)),
                                            conn, storeUp, hive)
             IN /\ th' = [th EXCEPT ![t] =
                     Finish(t, Respond(ResultEnvelope(req_id, TextContent(entries))))]
                /\ _snowflake_conn' = conn
                /\ hive' = hive
         ELSE IF tool_name = WriteTool THEN
           IF ~IsDict(arguments) THEN
             th' = [th EXCEPT ![t] = Finish(t, Crash)] /\ quiet
           ELSE
             LET w == write_to_hive_mind(JStr(InstanceLabel),
                        Get(arguments, "category", JStr(W("INSIGHT"))),
                        Get(arguments, "summary", JStr(EmptyText)),
                        Get(arguments, "workstream", JStr(W("GENERAL"))),
                        JStr(W("MEDIUM")), conn, storeUp, hive)
             IN /\ th' = [th EXCEPT ![t] =
                     Finish(t, Respond(ResultEnvelope(req_id,
                       TextContent(IF w.success THEN Written ELSE Failed))))]
                /\ _snowflake_conn' = conn
                /\ hive' = w.table
         ELSE
           /\ th' = [th EXCEPT ![t] =
                Finish(t, Respond(ErrorEnvelope(req_id, MethodNotFound,
                  Join(<<W("Unknown tool: "), Format(tool_name)>>))))]
           /\ quiet
     ELSE
       /\ th' = [th EXCEPT ![t] =
            Finish(t, Respond(ErrorEnvelope(req_id, MethodNotFound, W("Method not found"))))]
       /\ quiet
  /\ UNCHANGED <<_vertexai_initialized, storeUp, conversations, backend, env, probe>>

\* ------------------------------------------------------------------------
\* handle_gemini_chat, one action per call it makes
\* ------------------------------------------------------------------------
\* one conversation id drawn for the process instead of one per request
Uuid4PerProcess(drawn) == W("uuid-0")

\* str(uuid.uuid4()): a value never drawn before
Uuid4(drawn) == W("uuid-" \o ToString(drawn + 1))

\* message, custom_system, conversation_id and log_conversation(.., "user", ..)
LogUserTurn(t) ==
  /\ th[t].pc = "handle_gemini_chat"
  /\ IF ~IsDict(th[t].arguments) THEN
       \* arguments.get raises AttributeError
       /\ th' = [th EXCEPT ![t] = Finish(t, Crash)]
       /\ UNCHANGED <<_snowflake_conn, conversations, env>>
     ELSE
       LET arguments == th[t].arguments
           message == Get(arguments, "message", Get(arguments, "prompt", JStr(EmptyText)))
           conversation_id == Uuid4(env.uuids)
           conn == get_snowflake_connection(_snowflake_conn, storeUp)
           table == log_conversation(conversation_id, W("user"), message,
                                     conn, storeUp, conversations)
       IN /\ th' = [th EXCEPT ![t] = [@ EXCEPT !.pc = "query_hive_mind",
                                               !.message = message,
                                               !.conversation_id = conversation_id,
                                               !.logged = IF table # conversations
                                                          THEN <<"user">> ELSE << >>]]
          /\ _snowflake_conn' = conn
          /\ conversations' = table
          /\ env' = [env EXCEPT !.uuids = @ + 1]
  /\ UNCHANGED <<_vertexai_initialized, storeUp, hive, backend, probe>>

\* hive_context = query_hive_mind(3) and the composed system prompt
ComposeContext(t) ==
  /\ th[t].pc = "query_hive_mind"
  /\ LET custom_system == Get(th[t].arguments, "system", JStr(EmptyText))
         conn == get_snowflake_connection(_snowflake_conn, storeUp)
         hive_context == query_hive_mind(JNum(ContextLimit), conn, storeUp, hive)
         with_custom == IF Truthy(custom_system)
                        THEN Join(<<SOVEREIGN_MIND_SYSTEM_PROMPT,
                                    W("\n\n# ADDITIONAL INSTRUCTIONS\n"),
                                    Format(custom_system)>>)
                        ELSE SOVEREIGN_MIND_SYSTEM_PROMPT
         system_prompt == Join(<<with_custom, W("\n\n# RECENT HIVE MIND CONTEXT\n"),
                                 hive_context>>)
     IN /\ th' = [th EXCEPT ![t] = [@ EXCEPT !.pc = "init_vertexai",
                                             !.system_prompt = system_prompt]]
        /\ _snowflake_conn' = conn
  /\ UNCHANGED <<_vertexai_initialized, storeUp, hive, conversations, backend, env, probe>>

\* init_vertexai without its guard
MustInitializeAlways(flag) == TRUE

\* init_vertexai: `if not _vertexai_initialized`
MustInitialize(flag) == ~flag

InitCheck(t) ==
  /\ th[t].pc = "init_vertexai"
  /\ th' = [th EXCEPT ![t].pc = IF MustInitialize(_vertexai_initialized)
                                THEN "vertexai.init" ELSE "generate_content"]
  /\ UNCHANGED <<_snowflake_conn, _vertexai_initialized, storeUp, hive,
                 conversations, backend, env, probe>>

\* init_vertexai: vertexai.init(...) returns and the flag is set
InitSucceeds(t) ==
  /\ th[t].pc = "vertexai.init"
  /\ _vertexai_initialized' = TRUE
  /\ backend' = [backend EXCEPT !.inits = @ + 1]
  /\ th' = [th EXCEPT ![t].pc = "generate_content"]
  /\ UNCHANGED <<_snowflake_conn, storeUp, hive, conversations, env, probe>>

\* init_vertexai: the import or vertexai.init raises; logged, not re-raised
InitFails(t) ==
  /\ th[t].pc = "vertexai.init"
  /\ th' = [th EXCEPT ![t].pc = "generate_content"]
  /\ UNCHANGED <<_snowflake_conn, _vertexai_initialized, storeUp, hive,
                 conversations, backend, env, probe>>

Replies == {W("reply")}

\* call_gemini: model.generate_content(message) answers
GenerateSucceeds(t, text) ==
  /\ th[t].pc = "generate_content"
  /\ backend' = [backend EXCEPT !.calls = @ + 1]
  /\ th' = [th EXCEPT ![t] = [@ EXCEPT !.pc = "log_assistant", !.response = text]]
  /\ UNCHANGED <<_snowflake_conn, _vertexai_initialized, storeUp, hive,
                 conversations, env, probe>>

\* call_gemini: the call raises and "Error: ..." is returned
GenerateFails(t) ==
  /\ th[t].pc = "generate_content"
  /\ backend' = [backend EXCEPT !.calls = @ + 1]
  /\ th' = [th EXCEPT ![t] = [@ EXCEPT !.pc = "log_assistant", !.response = GeminiError]]
  /\ UNCHANGED <<_snowflake_conn, _vertexai_initialized, storeUp, hive,
                 conversations, env, probe>>

\* log_conversation(.., "assistant", response) and the response envelope
LogAssistantTurn(t) ==
  /\ th[t].pc = "log_assistant"
  /\ LET conn == get_snowflake_connection(_snowflake_conn, storeUp)
         table == log_conversation(th[t].conversation_id, W("assistant"),
                                   JStr(th[t].response), conn, storeUp, conversations)
         logged == IF table # conversations
                   THEN Append(th[t].logged, "assistant") ELSE th[t].logged
     IN /\ th' = [th EXCEPT ![t] =
             [Finish(t, Respond(ResultEnvelope(th[t].req_id,
                TextContent(DumpResponse(th[t].response)))))
              EXCEPT !.logged = logged]]
        /\ _snowflake_conn' = conn
        /\ conversations' = table
  /\ UNCHANGED <<_vertexai_initialized, storeUp, hive, backend, env, probe>>

\* ------------------------------------------------------------------------
\* Specification
\* ------------------------------------------------------------------------
Next ==
  \/ \E t \in Threads, body \in Bodies \cup GenerationBodies : Receive(t, body)
  \/ StoreFails
  \/ StoreRecovers
  \/ OtherAgentWrites
  \/ index
  \/ \E t \in Threads : mcp_endpoint(t)
  \/ \E t \in Threads : LogUserTurn(t)
  \/ \E t \in Threads : ComposeContext(t)
  \/ \E t \in Threads : InitCheck(t)
  \/ \E t \in Threads : InitSucceeds(t)
  \/ \E t \in Threads : InitFails(t)
  \/ \E t \in Threads, text \in Replies : GenerateSucceeds(t, text)
  \/ \E t \in Threads : GenerateFails(t)
  \/ \E t \in Threads : LogAssistantTurn(t)

Spec == Init /\ [][Next]_vars

\* the same process, serving generation requests only
InitGeneration ==
  /\ _snowflake_conn = "None"
  /\ _vertexai_initialized = FALSE
  /\ storeUp = TRUE
  /\ hive = << >>
  /\ conversations = << >>
  /\ th = [t \in Threads |-> Idle]
  /\ backend = [inits |-> 0, calls |-> 0]
  /\ env = [received |-> 0, uuids |-> 0, others |-> 0, clients |-> "generation"]
  /\ probe = [sample |-> EmptyText, wrote |-> FALSE, logged |-> FALSE]

SpecGeneration == InitGeneration /\ [][Next]_vars

\* ------------------------------------------------------------------------
\* SpecText: the two INSERT helpers applied to one text, over a reachable
\* store and empty tables.  The texts have up to MaxRuns runs of letters and
\* quotes whose lengths sit around the caps.
\* ------------------------------------------------------------------------
MaxRuns == 2
SampleLengths == {1, 2, 1999, 2000, 2001, 3999, 4000, 4001}
SampleChars == {"a", Quote}

RECURSIVE TextsOfRuns(_)
TextsOfRuns(k) ==
  IF k = 0 THEN {EmptyText}
  ELSE {Append(s, Run(c, n)) : s \in TextsOfRuns(k - 1), c \in SampleChars, n \in SampleLengths}

Samples ==
  {s \in UNION {TextsOfRuns(k) : k \in 0..MaxRuns} : Normalize(s) = s}

InitText ==
  /\ _snowflake_conn = "conn"
  /\ _vertexai_initialized = FALSE
  /\ storeUp = TRUE
  /\ hive = << >>
  /\ conversations = << >>
  /\ th = [t \in Threads |-> Idle]
  /\ backend = [inits |-> 0, calls |-> 0]
  /\ env = [received |-> 0, uuids |-> 0, others |-> 0, clients |-> "none"]
  /\ probe \in {[sample |-> s, wrote |-> FALSE, logged |-> FALSE] : s \in Samples}

\* write_to_hive_mind("GEMINI", "INSIGHT", sample)
WriteSample ==
  /\ ~probe.wrote
  /\ hive' = write_to_hive_mind(JStr(InstanceLabel), JStr(W("INSIGHT")), JStr(probe.sample),
                                JStr(W("GENERAL")), JStr(W("MEDIUM")),
                                get_snowflake_connection(_snowflake_conn, storeUp),
                                storeUp, hive).table
  /\ probe' = [probe EXCEPT !.wrote = TRUE]
  /\ UNCHANGED <<_snowflake_conn, _vertexai_initialized, storeUp, conversations,
                 th, backend, env>>

\* log_conversation(conversation_id, "user", sample)
LogSample ==
  /\ ~probe.logged
  /\ conversations' = log_conversation(Uuid4(env.uuids), W("user"), JStr(probe.sample),
                                       get_snowflake_connection(_snowflake_conn, storeUp),
                                       storeUp, conversations)
  /\ probe' = [probe EXCEPT !.logged = TRUE]
  /\ UNCHANGED <<_snowflake_conn, _vertexai_initialized, storeUp, hive,
                 th, backend, env>>

NextText == WriteSample \/ LogSample

SpecText == InitText /\ [][NextText]_vars

\* ------------------------------------------------------------------------
\* Reading the state
\* ------------------------------------------------------------------------
Done(t) == th[t].pc = "done"
Answered(t) == Done(t) /\ th[t].resp.status = 200
Method(d) == Get(d, "method", JStr(EmptyText))
ParamsOf(d) == Get(d, "params", JObj(EmptyDict))
KnownTools == {GenerateTool, ChatTool, AnalyzeTool, ReadTool, WriteTool}
GenerationTools == {GenerateTool, ChatTool, AnalyzeTool}
ToolOf(d) == Get(ParamsOf(d), "name", JStr(EmptyText))
ArgumentsOf(d) == Get(ParamsOf(d), "arguments", JObj(EmptyDict))
IsCall(d, tools) ==
  Method(d) = ToolsCall /\ IsDict(ParamsOf(d)) /\ ToolOf(d) \in tools
\* params and arguments are objects or absent
WellShaped(d) ==
  Method(d) = ToolsCall =>
    IsDict(ParamsOf(d)) /\ (ToolOf(d) \in KnownTools => IsDict(ArgumentsOf(d)))
HasResult(r) == "result" \in DOMAIN r.body
HasError(r) == "error" \in DOMAIN r.body
ResultText(r) == r.body.result.v.content.v[1].v.text.v
\* the thread that takes the step doing mcp_endpoint
Routes(t) == th[t].pc = "mcp_endpoint" /\ th'[t].pc # "mcp_endpoint"

\* ------------------------------------------------------------------------
\* Claims
\* ------------------------------------------------------------------------

\* C1: every response envelope carries the id of its request, or 1 when the
\* request has none, whatever the method and the tool; and every request
\* whose params and arguments are objects (or absent) is answered with one.
EnvelopeIdentity ==
  \A t \in Threads : Done(t) =>
    LET d == th[t].data  r == th[t].resp
    IN /\ r.status = 200 =>
            /\ "id" \in DOMAIN r.body
            /\ r.body.id = (IF "id" \in DOMAIN d.v THEN d.v["id"] ELSE JNum(1))
       /\ WellShaped(d) => r.status = 200

EnvelopeIdentityWitness ==
  \E t, u \in Threads :
    /\ Answered(t) /\ "id" \notin DOMAIN th[t].data.v /\ th[t].resp.body.id = JNum(1)
    /\ IsCall(th[t].data, {WriteTool})
    /\ Answered(u) /\ "id" \in DOMAIN th[u].data.v /\ th[u].resp.body.id = JNum(7)
    /\ IsCall(th[u].data, {GenerateTool})

\* C2: every request handed to the router ends with an envelope that holds
\* exactly one of result and error, whatever the shape of params/arguments.
ExactlyOneOfResultOrError ==
  \A t \in Threads : Done(t) =>
    /\ th[t].resp.status = 200
    /\ HasResult(th[t].resp) # HasError(th[t].resp)

\* C3: an unrecognised tool name, or a method other than tools/list and
\* tools/call, is answered with error -32601 and nothing else happens: no
\* MemoryEntry, no ConversationTurn, no backend call, no store connection.
UnknownRequest(d) ==
  \/ Method(d) \notin {ToolsList, ToolsCall}
  \/ Method(d) = ToolsCall /\ IsDict(ParamsOf(d)) /\ ToolOf(d) \notin KnownTools

UnknownHasNoEffect ==
  [][\A t \in Threads : (Routes(t) /\ UnknownRequest(th[t].data)) =>
       /\ th'[t].pc = "done"
       /\ th'[t].resp.status = 200
       /\ HasError(th'[t].resp) /\ ~HasResult(th'[t].resp)
       /\ th'[t].resp.body.error.v.code = JNum(-32601)
       /\ UNCHANGED <<hive, conversations, backend, _snowflake_conn,
                      _vertexai_initialized>>]_vars

UnknownHasNoEffectWitness ==
  \E t, u \in Threads :
    /\ Answered(t) /\ IsCall(th[t].data, {JStr(W("nope"))})
    /\ th[t].resp.body.error.v.code = JNum(-32601)
    /\ Answered(u) /\ Method(th[u].data) = JStr(W("ping"))
    /\ th[u].resp.body.error.v.code = JNum(-32601)
    /\ _snowflake_conn = "None" /\ backend.calls = 0

\* the roles of the turns logged under one conversation id, oldest first
RolesOf(cid) ==
  LET RECURSIVE Pick(_)
      Pick(log) == IF log = << >> THEN << >>
                   ELSE IF Head(log).conversation_id = cid
                        THEN <<Head(log).role>> \o Pick(Tail(log))
                        ELSE Pick(Tail(log))
  IN Pick(conversations)

LoggedIds == {conversations[i].conversation_id : i \in 1..Len(conversations)}

\* C4 as stated: a generation request that has answered left exactly the
\* turns user, assistant under its conversation id, and no assistant turn is
\* in the log without the user turn of the same conversation id before it.
ExactlyTwoTurns ==
  /\ \A t \in Threads :
       (Answered(t) /\ IsCall(th[t].data, GenerationTools)) =>
         RolesOf(th[t].conversation_id) = <<W("user"), W("assistant")>>
  /\ \A cid \in LoggedIds : Head(RolesOf(cid)) = W("user")

\* C4 as amended: under one conversation id the log holds at most one user
\* turn and at most one assistant turn, the user turn first; the assistant
\* turn is written only by the request's last step, after the generative
\* call; no two requests share an id; and the turns in the log under a
\* request's id are exactly those of its two writes that were committed.
AtMostTwoTurnsInOrder ==
  /\ \A cid \in LoggedIds :
       RolesOf(cid) \in {<<W("user")>>, <<W("assistant")>>, <<W("user"), W("assistant")>>}
  /\ \A t \in Threads : th[t].conversation_id # EmptyText =>
       /\ RolesOf(th[t].conversation_id) = [i \in 1..Len(th[t].logged) |-> W(th[t].logged[i])]
       /\ ~Done(t) => W("assistant") \notin {RolesOf(th[t].conversation_id)[i] :
                                               i \in 1..Len(RolesOf(th[t].conversation_id))}
       /\ \A u \in Threads \ {t} : th[u].conversation_id # th[t].conversation_id

AtMostTwoTurnsInOrderWitness ==
  \E t, u \in Threads :
    /\ t # u
    /\ Answered(t) /\ IsCall(th[t].data, GenerationTools)
    /\ RolesOf(th[t].conversation_id) = <<W("user"), W("assistant")>>
    /\ Answered(u) /\ IsCall(th[u].data, GenerationTools)
    /\ RolesOf(th[u].conversation_id) = <<W("assistant")>>

\* C5: with no connection and the store unreachable, sm_hive_mind_read is
\* answered with the result text "Hive Mind unavailable" and
\* sm_hive_mind_write with the result text "Failed"; no entry is appended.
DegradesGracefully ==
  [][\A t \in Threads :
       (/\ Routes(t)
        /\ ~storeUp /\ _snowflake_conn = "None"
        /\ IsCall(th[t].data, {ReadTool, WriteTool})
        /\ IsDict(ArgumentsOf(th[t].data))) =>
       /\ th'[t].pc = "done"
       /\ th'[t].resp.status = 200
       /\ HasResult(th'[t].resp) /\ ~HasError(th'[t].resp)
       /\ ResultText(th'[t].resp) =
            (IF ToolOf(th[t].data) = ReadTool THEN W("Hive Mind unavailable") ELSE W("Failed"))
       /\ hive' = hive]_vars

DegradesGracefullyWitness ==
  \E t, u \in Threads :
    /\ _snowflake_conn = "None" /\ ~storeUp /\ hive = << >>
    /\ Answered(t) /\ IsCall(th[t].data, {ReadTool})
    /\ ResultText(th[t].resp) = W("Hive Mind unavailable")
    /\ Answered(u) /\ IsCall(th[u].data, {WriteTool})
    /\ ResultText(th[u].resp) = W("Failed")

\* the line of a rendered query result that comes first
RECURSIVE FirstLine(_)
FirstLine(s) ==
  IF s = << >> THEN << >>
  ELSE IF Head(s).ch = Newline THEN << >>
  ELSE <<Head(s)>> \o FirstLine(Tail(s))

\* C6: with the store reachable, sm_hive_mind_write with category C and
\* summary S and no workstream answers "Written to Hive Mind" and appends
\* exactly the entry (GEMINI, C, GENERAL, S, MEDIUM); a read with limit >= 1
\* then shows the newest entry on its first line.
WriteThenRead ==
  [][\A t \in Threads :
       LET d == th[t].data  a == ArgumentsOf(d) IN
       /\ (/\ Routes(t) /\ storeUp
           /\ IsCall(d, {WriteTool}) /\ IsDict(a)
           /\ DOMAIN a.v = {"category", "summary"}) =>
            /\ th'[t].resp.status = 200 /\ HasResult(th'[t].resp)
            /\ ResultText(th'[t].resp) = W("Written to Hive Mind")
            /\ Len(hive') = Len(hive) + 1
            /\ SubSeq(hive', 1, Len(hive)) = hive
            /\ LET e == hive'[Len(hive')]
               IN /\ e.source = W("GEMINI")
                  /\ e.category = a.v["category"].v
                  /\ e.summary = a.v["summary"].v
                  /\ e.workstream = W("GENERAL")
                  /\ e.priority = W("MEDIUM")
       /\ (/\ Routes(t) /\ storeUp /\ hive # << >>
           /\ IsCall(d, {ReadTool}) /\ IsDict(a)) =>
            /\ th'[t].resp.status = 200 /\ HasResult(th'[t].resp)
            /\ FirstLine(ResultText(th'[t].resp)) = Render(hive[Len(hive)])]_vars

\* C10: no entry written by this instance has an empty category or an empty
\* source.
CategoryAndSourceNonEmpty ==
  \A i \in 1..Len(hive) :
    hive[i].source = W("GEMINI") => hive[i].category # EmptyText /\ hive[i].source # EmptyText

\* C9 as stated: vertexai.init succeeds at most once in the life of the process.
InitializedAtMostOnce == backend.inits <= 1

\* C9 as amended: the initialisation is lazy (it has not run before a
\* generation request began) and every request runs it at most once; a request that
\* reads the flag set does not run it; a failed attempt leaves the flag as it
\* was and the request goes on to the generative call.  (Requests that read
\* the flag before it was set may each run it successfully.)
InitializedLazilyAndGuarded ==
  /\ [](/\ backend.inits <= env.uuids
        /\ _vertexai_initialized <=> backend.inits > 0)
  /\ [][\A t \in Threads :
          /\ (th[t].pc = "init_vertexai" /\ th'[t].pc # th[t].pc /\ _vertexai_initialized) =>
               /\ th'[t].pc = "generate_content"
               /\ backend' = backend
          /\ (th[t].pc = "vertexai.init" /\ th'[t].pc # th[t].pc) =>
               /\ th'[t].pc = "generate_content"
               /\ backend'.inits = backend.inits =>
                    _vertexai_initialized' = _vertexai_initialized]_vars

InitializedLazilyAndGuardedWitness ==
  /\ _vertexai_initialized
  /\ backend.inits = 1
  /\ backend.calls = 2
  /\ \A t \in Threads : Answered(t) /\ IsCall(th[t].data, GenerationTools)

\* C7: every entry written by this instance has a summary of at most 2000
\* characters, the 2000-character prefix of the summary argument.
SummaryWithinCap ==
  probe.wrote =>
    /\ Len(hive) = 1
    /\ TextLen(hive[1].summary) <= 2000
    /\ hive[1].summary = Slice(probe.sample, 2000)

\* C8: log_conversation stores the first 4000 characters of the content
\* (the whole content when it is shorter), quotes included, and the write
\* is not rejected.
ContentPrefixStored ==
  probe.logged =>
    /\ Len(conversations) = 1
    /\ conversations[1].content = Slice(probe.sample, 4000)

====
